---------------------------- MODULE Spec2Model ----------------------------
(***************************************************************************)
(* A model of outlook-cleaner: the OutlookService facade                   *)
(* (src/imap_service.py) driven by main and clean_inbox (src/main.py), and *)
(* the XOAUTH2 handshake (src/auth.py).  Spec is the run of the program;   *)
(* AuthSpec is the inside of one call of authenticate_oauth2.              *)
(*                                                                         *)
(* The program is sequential.  pc is the position of the single thread of  *)
(* control and stack holds one frame per pending call: the label to go to  *)
(* when the callee returns (ok) and the label of the innermost handler     *)
(* that catches what the callee raises (err).  One action is one step of   *)
(* the code up to and including its next command on the connection; the    *)
(* answer of the server (and of the network) to each command is chosen by  *)
(* the environment.                                                        *)
(*                                                                         *)
(* The imaplib connection object is represented by the state imaplib       *)
(* keeps for it: "NONAUTH", "AUTH", "SELECTED", "LOGOUT" ("None" when the  *)
(* service holds no connection object).  imaplib refuses a command that is *)
(* illegal in the handle's state by raising IMAP4.error without sending    *)
(* anything (UID, EXPUNGE, CLOSE: SELECTED only; SELECT: AUTH, SELECTED;   *)
(* NOOP and LOGOUT: any state).                                            *)
(***************************************************************************)
EXTENDS Integers, Sequences, FiniteSets, TLC

(***************************************************************************)
(* Bounds of the model.                                                    *)
(***************************************************************************)
\* number of search criteria (sender names) of one run
MaxCriteria == 2
\* UIDs of the mailbox are 1..MaxUid
MaxUid == 2
\* length of the UID list given to a direct call of delete_emails
MaxIds == 3
\* batch sizes tried beside the default one
MaxBatch == 2

\* def delete_emails(self, email_ids, batch_size=100)
DefaultBatchSize == 100

UIDs == 1..MaxUid

BatchSizes == (1..MaxBatch) \cup {DefaultBatchSize}

\* A UID as the server sends it (bytes) and as the program keeps it (str).
Bytes(n) == <<"b", n>>

\* uid_bytes.decode('utf-8')
Decode(b) == b[2]

RECURSIVE Ascending(_)
\* The strictly ascending sequences over 1..n: the UID lists a SEARCH answers.
Ascending(n) ==
    IF n = 0 THEN {<<>>}
    ELSE LET rest == Ascending(n - 1)
         IN  rest \cup {Append(s, Bytes(n)) : s \in rest}

\* data[0].split() of a successful UID SEARCH
SearchAnswers == Ascending(MaxUid)

\* <<1, ..., n>>
Iota(n) == [x \in 1..n |-> x]

Range(s) == {s[x] : x \in DOMAIN s}

NoDuplicates(s) == \A x, y \in DOMAIN s : x # y => s[x] # s[y]

IsPrefix(s, t) == Len(s) <= Len(t) /\ \A x \in 1..Len(s) : s[x] = t[x]

RECURSIVE Flatten(_)
Flatten(ss) == IF ss = <<>> THEN <<>> ELSE Head(ss) \o Flatten(Tail(ss))

Min(a, b) == IF a < b THEN a ELSE b

VARIABLES
    pc,                \* position of the thread of control
    stack,             \* pending calls: <<[ok |-> label, err |-> label], ...>>
    mode,              \* "clean_inbox" | "delete_emails" | "none"
    connection,        \* self.connection: imaplib state of the handle, or "None"
    sender_names,      \* the criteria given to search_specific_senders
    move_to_deleted,   \* clean_inbox's flag
    name_idx,          \* position of `for name in sender_names`
    charset,           \* position of `for charset in ('UTF-8', None)`
    uids_bytes,        \* what _search_sender_on_server returned
    uid_idx,           \* position of `for uid_bytes in uids_bytes`
    email_results,     \* `results` local to _process_email_ids
    results,           \* `results` of search_specific_senders
    total_found_uids,  \* the set of already-seen UIDs
    email_ids,         \* ids_to_delete of clean_inbox, email_ids of delete_emails
    batch_size,        \* delete_emails' batch_size
    k,                 \* position of `for k in range(0, len(email_ids), batch_size)`
    offset,            \* position of `for offset, uid in enumerate(batch_uids)`
    \* ---- observations (history of the run, not program state) ----
    searched,          \* the calls of _search_sender_on_server, in order: the
                       \* criterion, whether a UID SEARCH succeeded, the UIDs it gave
    attempts,          \* the attempts of the current _search_sender_on_server call
    found,             \* the UIDs the successful UID SEARCHes of the run returned
    failed,            \* some command of the run did not answer OK
    batches,           \* the batches delete_emails handed to _process_deletion_batch
    uidlog,            \* per finished position of email_ids: STOREs sent for it
    cur,               \* what was done so far for the UID in progress
    commit,            \* what the commit step (_expunge_with_retry) did
    probes,            \* delete_emails: the session at entry, and whether it was used since
    guard,             \* the liveness-guarded operation in progress: its probe's
                       \* answer and the calls of _reconnect() since the probe
    closing,           \* the calls of close() so far, and whether a command of one failed
    issued,            \* the SEARCH, FETCH, STORE or EXPUNGE the last step put on the
                       \* wire, with the state of the handle it was sent on (else none)
    \* ---- main (src/main.py) ----
    exit_status,       \* what main() returned ("0", "1"), "None" before it has
    \* ---- authenticate_oauth2 (src/auth.py) ----
    exc,               \* the exception in flight, or "None"
    response,          \* `response` of _authenticate_oauth2_manual (line 59)
    response_lines,    \* `response_lines` of _read_final_auth_response
    auth_attempts,     \* `attempts` of _read_final_auth_response
    full_response,     \* `full_response` of _authenticate_oauth2_manual
    error_msg,         \* the message of the exception in flight
    \* ---- observations of the handshake ----
    wire,              \* what the manual exchange sent on the connection, in order
    reads              \* calls of readline() by _read_final_auth_response

searchVars == <<sender_names, name_idx, charset, uids_bytes, uid_idx,
                email_results, results, total_found_uids>>
deleteVars == <<email_ids, batch_size, k, offset>>
searchObs  == <<searched, attempts, found>>
deleteObs  == <<batches, uidlog, cur, commit, probes>>

authVars   == <<exc, response, response_lines, auth_attempts, full_response,
                error_msg, wire, reads>>
\* What the handshake does not touch.
runVars    == <<stack, mode, move_to_deleted, searchVars, deleteVars, searchObs,
                deleteObs, failed, guard, closing, issued, exit_status>>

vars == <<pc, stack, mode, connection, move_to_deleted, searchVars, deleteVars,
          searchObs, deleteObs, failed, guard, closing, issued, exit_status, authVars>>

(***************************************************************************)
(* Calls, returns and exceptions.                                          *)
(***************************************************************************)
Call(entry, okLabel, errLabel) ==
    /\ pc' = entry
    /\ stack' = <<[ok |-> okLabel, err |-> errLabel]>> \o stack

Return ==
    /\ pc' = Head(stack).ok
    /\ stack' = Tail(stack)

Raise ==
    /\ pc' = Head(stack).err
    /\ stack' = Tail(stack)

Goto(label) ==
    /\ pc' = label
    /\ stack' = stack

\* What a command on the connection can answer: a status, or an exception.
Errors == {"OSError", "IMAP4.error"}
Statuses == {"OK", "NO"}
Answers == Statuses \cup Errors

\* Nothing done yet for the UID in progress, in the commit step, in delete_emails.
\* first, second: calls of connection.uid('STORE', ...) in the first try and in
\* the retry; sent: STORE commands sent; forced: unconditional reconnects.
NoUid == [first |-> 0, second |-> 0, sent |-> 0, forced |-> 0, firstFailed |-> FALSE]
\* first, second: calls of connection.expunge(); expunges: EXPUNGE commands
\* sent; reconnects: calls of _reconnect(), forced: the unconditional ones.
NoCommit == [entered |-> FALSE, first |-> 0, second |-> 0, expunges |-> 0,
             reconnects |-> 0, forced |-> 0, firstFailed |-> FALSE, done |-> FALSE]
NoProbes == [touched |-> FALSE, entry |-> "None"]
\* No liveness-guarded operation in progress.
NoGuard == [op |-> "none", alive |-> TRUE, reconnects |-> 0]
NoClosing == [calls |-> 0, failed |-> FALSE]
\* The last step put none of SEARCH, FETCH, STORE, EXPUNGE on the wire.
NoCommand == [cmd |-> "none", uid |-> 0, arg |-> "", answer |-> "none",
              on |-> "None", probed |-> FALSE]
\* The command a step puts on the wire and what came back: the UID it names
\* (0 when it names none), its argument, the state of self.connection, and
\* whether the operation has probed liveness before it.
Command(cmd, uid, arg, answer) ==
    [cmd |-> cmd, uid |-> uid, arg |-> arg, answer |-> answer,
     on |-> connection, probed |-> guard.op # "none"]

\* The locals of authenticate_oauth2 before it is called.
NoAuth ==
    /\ exc = "None"
    /\ response = <<>>
    /\ response_lines = <<>>
    /\ auth_attempts = 0
    /\ full_response = <<>>
    /\ error_msg = <<>>
    /\ wire = <<>>
    /\ reads = 0

Init ==
    /\ pc = "idle"
    /\ stack = <<>>
    /\ mode = "none"
    /\ connection = "None"
    /\ sender_names = <<>>
    /\ move_to_deleted = FALSE
    /\ name_idx = 0
    /\ charset = "UTF-8"
    /\ uids_bytes = <<>>
    /\ uid_idx = 0
    /\ email_results = <<>>
    /\ results = <<>>
    /\ total_found_uids = {}
    /\ email_ids = <<>>
    /\ batch_size = DefaultBatchSize
    /\ k = 0
    /\ offset = 0
    /\ searched = <<>>
    /\ attempts = <<>>
    /\ found = {}
    /\ failed = FALSE
    /\ batches = <<>>
    /\ uidlog = <<>>
    /\ cur = NoUid
    /\ commit = NoCommit
    /\ probes = NoProbes
    /\ guard = NoGuard
    /\ closing = NoClosing
    /\ issued = NoCommand
    /\ exit_status = "None"
    /\ NoAuth


\* The call of delete_emails is pending (its frame is on the stack).
InDelete == \E x \in DOMAIN stack : stack[x].err = "del_raised"

Fail(answer) == failed \/ answer # "OK"

(***************************************************************************)
(* Session manager: connect, _is_connection_alive, _reconnect, close.      *)
(***************************************************************************)

\* connect(), line 22: imaplib.IMAP4_SSL(self.server).  The assignment to
\* self.connection happens only when the constructor returns.
ConnectOpen ==
    /\ pc = "connect_ssl"
    /\ UNCHANGED <<authVars, guard, closing, exit_status>>
    /\ issued' = NoCommand
    /\ \E answer \in {"OK", "OSError"} :
        /\ failed' = Fail(answer)
        /\ IF answer = "OK"
           THEN connection' = "NONAUTH" /\ Goto("connect_auth")
           ELSE connection' = connection /\ Raise
    /\ UNCHANGED <<mode, move_to_deleted, searchVars, deleteVars, searchObs, deleteObs>>

\* connect(), line 26: authenticate_oauth2 returns True or raises IMAP4.error.
ConnectAuthenticate ==
    /\ pc = "connect_auth"
    /\ UNCHANGED <<authVars, guard, closing, exit_status>>
    /\ issued' = NoCommand
    /\ \E answer \in {"OK", "IMAP4.error"} :
        /\ failed' = Fail(answer)
        /\ IF answer = "OK"
           THEN connection' = "AUTH" /\ Goto("connect_select")
           ELSE connection' = connection /\ Raise
    /\ UNCHANGED <<mode, move_to_deleted, searchVars, deleteVars, searchObs, deleteObs>>

\* connect(), line 30: select(self.mailbox, readonly=False); the status it
\* returns is not looked at, so a NO answer leaves the handle in AUTH and
\* connect() returns normally.
ConnectSelect ==
    /\ pc = "connect_select"
    /\ UNCHANGED <<authVars, guard, closing, exit_status>>
    /\ issued' = NoCommand
    /\ \E answer \in Answers :
        /\ failed' = Fail(answer)
        /\ connection' = IF answer = "OK" THEN "SELECTED" ELSE "AUTH"
        /\ IF answer \in Statuses THEN Return ELSE Raise
    /\ UNCHANGED <<mode, move_to_deleted, searchVars, deleteVars, searchObs, deleteObs>>

\* Faulty variant of CanAnswerNoop: a missing handle is not noticed.
AlwaysAnswersNoop == TRUE

\* Whether the NOOP of _is_connection_alive can be answered: not without a
\* connection object (AttributeError), not on a handle that was logged out.
CanAnswerNoop == connection \in {"NONAUTH", "AUTH", "SELECTED"}

\* _is_connection_alive(): True is the callee's return (ok), False goes to the
\* frame's err label.
IsConnectionAlive ==
    /\ pc = "noop"
    /\ UNCHANGED <<authVars, closing, exit_status>>
    /\ issued' = NoCommand
    /\ \E alive \in BOOLEAN :
        /\ alive => CanAnswerNoop
        /\ guard' = [guard EXCEPT !.alive = alive]
        /\ failed' = (failed \/ ~alive)
        /\ IF alive THEN Return ELSE Raise
    /\ probes' = IF InDelete THEN [probes EXCEPT !.touched = TRUE] ELSE probes
    /\ UNCHANGED <<mode, connection, move_to_deleted, searchVars, deleteVars,
                   searchObs, batches, uidlog, cur, commit>>

\* _reconnect(), lines 44-48: close() of the stale handle, failures swallowed.
\* imaplib's close() leaves the handle in AUTH whatever happens.
ReconnectClose ==
    /\ pc = "rc_close"
    /\ UNCHANGED <<authVars, guard, closing, exit_status>>
    /\ issued' = NoCommand
    /\ IF connection = "None"
       THEN /\ Goto("connect_ssl")
            /\ UNCHANGED <<connection, failed>>
       ELSE /\ \E answer \in Answers :
                failed' = (failed \/ answer # "OK" \/ connection # "SELECTED")
            /\ connection' = "AUTH"
            /\ Goto("rc_logout")
    /\ probes' = IF InDelete THEN [probes EXCEPT !.touched = TRUE] ELSE probes
    /\ UNCHANGED <<mode, move_to_deleted, searchVars, deleteVars, searchObs,
                   batches, uidlog, cur, commit>>

\* _reconnect(), lines 49-56: logout() of the stale handle, failures swallowed,
\* then connect() in the caller's frame.
ReconnectLogout ==
    /\ pc = "rc_logout"
    /\ UNCHANGED <<authVars, guard, closing, exit_status>>
    /\ issued' = NoCommand
    /\ \E answer \in Answers : failed' = Fail(answer)
    /\ connection' = "LOGOUT"
    /\ Goto("connect_ssl")
    /\ UNCHANGED <<mode, move_to_deleted, searchVars, deleteVars, searchObs, deleteObs>>

\* close(), lines 361-365: nothing to do without a handle; else CLOSE, whose
\* failure is swallowed.
CloseClose ==
    /\ pc = "close_close"
    /\ UNCHANGED <<authVars, guard, exit_status>>
    /\ issued' = NoCommand
    /\ IF connection = "None"
       THEN /\ Return
            /\ UNCHANGED <<connection, failed, closing>>
       ELSE /\ \E answer \in Answers :
                LET bad == answer # "OK" \/ connection # "SELECTED"
                IN  /\ failed' = (failed \/ bad)
                    /\ closing' = [closing EXCEPT !.failed = @ \/ bad]
            /\ connection' = "AUTH"
            /\ Goto("close_logout")
    /\ UNCHANGED <<mode, move_to_deleted, searchVars, deleteVars, searchObs, deleteObs>>

\* Faulty variant of CloseLogout: an error of LOGOUT is let through.
CloseLogoutRaises ==
    /\ pc = "close_logout"
    /\ UNCHANGED <<authVars, guard, exit_status>>
    /\ issued' = NoCommand
    /\ \E answer \in Answers :
        /\ failed' = Fail(answer)
        /\ closing' = [closing EXCEPT !.failed = @ \/ answer # "OK"]
        /\ IF answer \in Errors THEN Raise ELSE Return
    /\ connection' = "LOGOUT"
    /\ UNCHANGED <<mode, move_to_deleted, searchVars, deleteVars, searchObs, deleteObs>>

\* close(), lines 366-369: LOGOUT, whose failure is swallowed.
CloseLogout ==
    /\ pc = "close_logout"
    /\ UNCHANGED <<authVars, guard, exit_status>>
    /\ issued' = NoCommand
    /\ \E answer \in Answers :
        /\ failed' = Fail(answer)
        /\ closing' = [closing EXCEPT !.failed = @ \/ answer # "OK"]
    /\ connection' = "LOGOUT"
    /\ Return
    /\ UNCHANGED <<mode, move_to_deleted, searchVars, deleteVars, searchObs, deleteObs>>

(***************************************************************************)
(* The callers: clean_inbox (src/main.py) with a SenderNameFilter, and a   *)
(* caller that connects and calls delete_emails(email_ids, batch_size).    *)
(***************************************************************************)

\* clean_inbox(user_email, email_filter, ..., move_to_deleted=...), with
\* email_filter a SenderNameFilter over `names`.
CleanInbox ==
    /\ pc = "idle"
    /\ UNCHANGED <<authVars, guard, closing, exit_status>>
    /\ issued' = NoCommand
    /\ \E n \in 0..MaxCriteria, flag \in BOOLEAN :
        /\ sender_names' = Iota(n)
        /\ move_to_deleted' = flag
    /\ mode' = "clean_inbox"
    /\ Goto("ci_token")
    /\ UNCHANGED <<connection, name_idx, charset, uids_bytes, uid_idx, email_results,
                   results, total_found_uids, deleteVars, searchObs, deleteObs, failed>>

\* clean_inbox, lines 27-39: get_oauth2_token (may raise), OutlookService(...),
\* service.connect().
CleanInboxToken ==
    /\ pc = "ci_token"
    /\ UNCHANGED <<authVars, guard, closing, exit_status>>
    /\ issued' = NoCommand
    /\ \E answer \in {"OK", "RuntimeError"} :
        IF answer = "OK"
        THEN Call("connect_ssl", "run_connected", "connect_raised")
        ELSE Goto("done_error")
    /\ UNCHANGED <<mode, connection, move_to_deleted, searchVars, deleteVars,
                   searchObs, deleteObs, failed>>

\* A caller of the facade: service.connect(); service.delete_emails(ids, size).
DeleteEmailsCaller ==
    /\ pc = "idle"
    /\ UNCHANGED <<authVars, guard, closing, exit_status>>
    /\ issued' = NoCommand
    /\ \E n \in 0..MaxIds, size \in BatchSizes :
        /\ email_ids' = Iota(n)
        /\ batch_size' = size
    /\ mode' = "delete_emails"
    /\ Call("connect_ssl", "run_connected", "connect_raised")
    /\ UNCHANGED <<connection, move_to_deleted, searchVars, k, offset,
                   searchObs, deleteObs, failed>>

\* A caller of the facade that never connected: OutlookService(...) and then
\* service.delete_emails(ids, size), self.connection still being None.
DeleteEmailsUnconnected ==
    /\ pc = "idle"
    /\ UNCHANGED <<authVars, guard, closing, exit_status>>
    /\ issued' = NoCommand
    /\ \E n \in 0..MaxIds, size \in BatchSizes :
        /\ email_ids' = Iota(n)
        /\ batch_size' = size
    /\ mode' = "delete_emails"
    /\ Call("del_enter", "run_finally", "del_raised")
    /\ UNCHANGED <<connection, move_to_deleted, searchVars, k, offset,
                   searchObs, deleteObs, failed>>

\* connect() returned.  clean_inbox, line 51: search_specific_senders(...)
\* starts with results = [] and total_found_uids = set().
RunConnected ==
    /\ pc = "run_connected"
    /\ UNCHANGED <<authVars, guard, closing, exit_status>>
    /\ issued' = NoCommand
    /\ IF mode = "clean_inbox"
       THEN /\ results' = <<>>
            /\ total_found_uids' = {}
            /\ name_idx' = 1
            /\ Goto("sss_loop")
       ELSE /\ UNCHANGED <<results, total_found_uids, name_idx>>
            /\ Call("del_enter", "run_finally", "del_raised")
    /\ UNCHANGED <<mode, connection, move_to_deleted, sender_names, charset,
                   uids_bytes, uid_idx, email_results, deleteVars, searchObs,
                   deleteObs, failed>>

\* Faulty variant of Ids: every entry is the id of the first mail.
IdsOfFirst(emails) == [x \in DOMAIN emails |-> emails[1].id]

\* [mail['id'] for mail in emails]
Ids(emails) == [x \in DOMAIN emails |-> emails[x].id]

\* Faulty variant of CleanInboxSummary: move_to_deleted is not looked at.
CleanInboxSummaryDeletes ==
    /\ pc = "ci_summary"
    /\ UNCHANGED <<authVars, guard, closing, exit_status>>
    /\ issued' = NoCommand
    /\ IF Ids(results) # <<>>
       THEN /\ email_ids' = Ids(results)
            /\ batch_size' = DefaultBatchSize
            /\ Call("del_enter", "run_finally", "del_raised")
       ELSE /\ email_ids' = Ids(results)
            /\ batch_size' = batch_size
            /\ Goto("run_finally")
    /\ results' = <<>>
    /\ searched' = <<>>
    /\ attempts' = <<>>
    /\ UNCHANGED <<mode, connection, move_to_deleted, sender_names, name_idx, charset,
                   uids_bytes, uid_idx, email_results, total_found_uids, k, offset,
                   found, deleteObs, failed>>

\* clean_inbox, lines 54-78: ids_to_delete, and delete_emails(ids_to_delete)
\* when move_to_deleted and ids_to_delete.  `emails` (results) is not read
\* after the matches are printed (lines 57-58).
CleanInboxSummary ==
    /\ pc = "ci_summary"
    /\ UNCHANGED <<authVars, guard, closing, exit_status>>
    /\ issued' = NoCommand
    /\ IF move_to_deleted /\ Ids(results) # <<>>
       THEN /\ email_ids' = Ids(results)
            /\ batch_size' = DefaultBatchSize
            /\ Call("del_enter", "run_finally", "del_raised")
       ELSE /\ email_ids' = Ids(results)
            /\ batch_size' = batch_size
            /\ Goto("run_finally")
    /\ results' = <<>>
    /\ searched' = <<>>
    /\ attempts' = <<>>
    /\ UNCHANGED <<mode, connection, move_to_deleted, sender_names, name_idx, charset,
                   uids_bytes, uid_idx, email_results, total_found_uids, k, offset,
                   found, deleteObs, failed>>

\* clean_inbox, line 80: the try block (lines 38-78) is left; ids_to_delete,
\* the locals of delete_emails and the history of the pass are not read again.
TryBlockLeft ==
    /\ email_ids' = <<>>
    /\ batch_size' = DefaultBatchSize
    /\ k' = 0
    /\ offset' = 0
    /\ searched' = <<>>
    /\ attempts' = <<>>
    /\ found' = {}
    /\ batches' = <<>>
    /\ uidlog' = <<>>
    /\ cur' = NoUid
    /\ commit' = NoCommit
    /\ probes' = NoProbes

\* clean_inbox, lines 80-84: finally service.close(); an exception of the try
\* block is then caught and printed.  What close() itself would raise goes to
\* "close_raised".
RunFinally ==
    /\ pc \in {"run_finally", "del_raised", "connect_raised"}
    /\ UNCHANGED <<authVars, guard, exit_status>>
    /\ issued' = NoCommand
    /\ closing' = [closing EXCEPT !.calls = @ + 1]
    /\ IF pc = "run_finally"
       THEN Call("close_close", "done", "close_raised")
       ELSE Call("close_close", "done_error", "close_raised")
    /\ TryBlockLeft
    /\ UNCHANGED <<mode, connection, move_to_deleted, searchVars, failed>>

\* The caller of the facade calls service.close() once more.  (The service
\* of clean_inbox is local to it: nobody can close it again.)
CloseAgain ==
    /\ pc \in {"done", "done_error"}
    /\ mode = "delete_emails"
    /\ closing.calls = 1
    /\ UNCHANGED <<authVars, guard, exit_status>>
    /\ issued' = NoCommand
    /\ closing' = [closing EXCEPT !.calls = @ + 1]
    /\ Call("close_close", pc, "close_raised")
    /\ UNCHANGED <<mode, connection, move_to_deleted, searchVars, deleteVars,
                   searchObs, deleteObs, failed>>

\* main(), lines 91-127: load_config() and the required values; with a valid
\* configuration, clean_inbox(email, SenderNameFilter(sender_names), ...),
\* sender_names not being empty (lines 100-102).
Main ==
    /\ pc = "idle"
    /\ UNCHANGED <<authVars, guard, closing>>
    /\ issued' = NoCommand
    /\ \E config \in {"valid", "FileNotFoundError", "ValueError"} :
        IF config = "valid"
        THEN /\ \E n \in 1..MaxCriteria, flag \in BOOLEAN :
                  /\ sender_names' = Iota(n)
                  /\ move_to_deleted' = flag
             /\ mode' = "clean_inbox"
             /\ exit_status' = exit_status
             /\ Goto("ci_token")
        ELSE /\ exit_status' = "1"
             /\ Goto("exited")
             /\ UNCHANGED <<sender_names, move_to_deleted, mode>>
    /\ UNCHANGED <<connection, name_idx, charset, uids_bytes, uid_idx, email_results,
                   results, total_found_uids, deleteVars, searchObs, deleteObs, failed>>

\* main(), lines 128-139: clean_inbox returned (it raises nothing, line 83);
\* return 0.
MainReturn ==
    /\ pc \in {"done", "done_error"}
    /\ mode = "clean_inbox"
    /\ sender_names # <<>>
    /\ UNCHANGED <<authVars, guard, closing>>
    /\ issued' = NoCommand
    /\ exit_status' = "0"
    /\ Goto("exited")
    /\ UNCHANGED <<mode, connection, move_to_deleted, searchVars, deleteVars,
                   searchObs, deleteObs, failed>>

(***************************************************************************)
(* Search engine: search_specific_senders, _search_sender_on_server,       *)
(* _process_email_ids, _fetch_email_subject.                               *)
(***************************************************************************)

\* search_specific_senders, line 204: `for name in sender_names`, and line
\* 206, the call of _search_sender_on_server(name).  The handler of lines
\* 219-235 ("sss_except") catches OSError and IMAP4.error, which neither
\* callee lets through.
SearchSpecificSenders ==
    /\ pc = "sss_loop"
    /\ UNCHANGED <<authVars, guard, closing, exit_status>>
    /\ issued' = NoCommand
    /\ name_idx <= Len(sender_names)
    /\ charset' = "UTF-8"
    /\ searched' = Append(searched, [name |-> sender_names[name_idx],
                                     ok |-> FALSE, uids |-> {}])
    /\ attempts' = <<>>
    /\ Call("srch_attempt", "sss_got", "sss_except")
    /\ UNCHANGED <<mode, connection, move_to_deleted, sender_names, name_idx,
                   uids_bytes, uid_idx, email_results, results, total_found_uids,
                   found, deleteVars, deleteObs, failed>>

\* search_specific_senders, line 237: `return results` when the loop is over;
\* the function's locals are gone.
SearchReturn ==
    /\ pc = "sss_loop"
    /\ UNCHANGED <<authVars, guard, closing, exit_status>>
    /\ issued' = NoCommand
    /\ name_idx > Len(sender_names)
    /\ name_idx' = 0
    /\ charset' = "UTF-8"
    /\ uids_bytes' = <<>>
    /\ total_found_uids' = {}
    /\ Goto("ci_summary")
    /\ UNCHANGED <<mode, connection, move_to_deleted, sender_names, uid_idx,
                   email_results, results, deleteVars, searchObs, deleteObs, failed>>

\* _uid_search_with_charset, line 120: the liveness probe of one attempt.
SearchAttempt ==
    /\ pc = "srch_attempt"
    /\ UNCHANGED <<authVars, closing, exit_status>>
    /\ issued' = NoCommand
    /\ guard' = [op |-> "search", alive |-> TRUE, reconnects |-> 0]
    /\ attempts' = Append(attempts, [charset |-> charset, sent |-> FALSE, ok |-> FALSE])
    /\ Call("noop", "srch_send", "srch_reconnect")
    /\ UNCHANGED <<mode, connection, move_to_deleted, searchVars, deleteVars,
                   searched, found, deleteObs, failed>>

\* _uid_search_with_charset, line 121: self._reconnect().
SearchReconnect ==
    /\ pc = "srch_reconnect"
    /\ UNCHANGED <<authVars, closing, exit_status>>
    /\ issued' = NoCommand
    /\ guard' = [guard EXCEPT !.reconnects = @ + 1]
    /\ Call("rc_close", "srch_send", "srch_except")
    /\ UNCHANGED <<mode, connection, move_to_deleted, searchVars, deleteVars,
                   searchObs, deleteObs, failed>>

\* The last attempt, with what became of its SEARCH.
Attempted(sent, ok) ==
    [attempts EXCEPT ![Len(attempts)] = [@ EXCEPT !.sent = sent, !.ok = ok]]

\* The current call of _search_sender_on_server, answered with `data`.
Answered(data) ==
    [searched EXCEPT ![Len(searched)] =
        [@ EXCEPT !.ok = TRUE, !.uids = {Decode(b) : b \in Range(data)}]]

\* _uid_search_with_charset, lines 122-125, and _search_sender_on_server,
\* lines 130-135: the UID SEARCH, with or without CHARSET, and its answer.
SearchSend ==
    /\ pc = "srch_send"
    /\ UNCHANGED <<authVars, closing, exit_status>>
    /\ guard' = NoGuard
    /\ IF connection # "SELECTED"
       THEN /\ attempts' = Attempted(FALSE, FALSE)
            /\ failed' = TRUE
            /\ issued' = NoCommand
            /\ Goto("srch_except")
            /\ UNCHANGED <<uids_bytes, searched, found>>
       ELSE \E answer \in Answers :
              /\ failed' = Fail(answer)
              /\ issued' = Command("SEARCH", 0, charset, answer)
              /\ IF answer = "OK"
                 THEN \E data \in SearchAnswers :
                        /\ uids_bytes' = data
                        /\ searched' = Answered(data)
                        /\ found' = found \cup {Decode(b) : b \in Range(data)}
                        /\ attempts' = Attempted(TRUE, TRUE)
                        /\ Return
                 ELSE /\ attempts' = Attempted(TRUE, FALSE)
                      /\ Goto("srch_except")
                      /\ UNCHANGED <<uids_bytes, searched, found>>
    /\ UNCHANGED <<mode, connection, move_to_deleted, sender_names, name_idx, charset,
                   uid_idx, email_results, results, total_found_uids, deleteVars,
                   deleteObs>>

\* Faulty variant of SearchExcept: no fallback, the first failure returns [].
SearchExceptGivesUp ==
    /\ pc = "srch_except"
    /\ UNCHANGED <<authVars, closing, exit_status>>
    /\ issued' = NoCommand
    /\ guard' = NoGuard
    /\ uids_bytes' = <<>>
    /\ charset' = charset
    /\ Return
    /\ UNCHANGED <<mode, connection, move_to_deleted, sender_names, name_idx,
                   uid_idx, email_results, results, total_found_uids, deleteVars,
                   searchObs, deleteObs, failed>>

\* _search_sender_on_server, lines 136-142: the handler of one attempt.
SearchExcept ==
    /\ pc = "srch_except"
    /\ UNCHANGED <<authVars, closing, exit_status>>
    /\ issued' = NoCommand
    /\ guard' = NoGuard
    /\ IF charset = "None"
       THEN /\ uids_bytes' = <<>>
            /\ charset' = charset
            /\ Return
       ELSE /\ charset' = "None"
            /\ uids_bytes' = uids_bytes
            /\ Goto("srch_attempt")
    /\ UNCHANGED <<mode, connection, move_to_deleted, sender_names, name_idx,
                   uid_idx, email_results, results, total_found_uids, deleteVars,
                   searchObs, deleteObs, failed>>

\* Faulty variant of SearchGot: an empty answer ends the loop (break for continue).
SearchGotBreaks ==
    /\ pc = "sss_got"
    /\ UNCHANGED <<authVars, guard, closing, exit_status>>
    /\ issued' = NoCommand
    /\ IF uids_bytes = <<>>
       THEN /\ name_idx' = Len(sender_names) + 1
            /\ Goto("sss_loop")
            /\ UNCHANGED <<email_results, uid_idx>>
       ELSE /\ email_results' = <<>>
            /\ uid_idx' = 1
            /\ name_idx' = name_idx
            /\ Goto("proc_loop")
    /\ attempts' = <<>>
    /\ UNCHANGED <<mode, connection, move_to_deleted, sender_names, charset,
                   uids_bytes, results, total_found_uids, deleteVars,
                   searched, found, deleteObs, failed>>

\* search_specific_senders, lines 208-217: skip an empty answer, else call
\* _process_email_ids(uids_bytes, name, total_found_uids).
SearchGot ==
    /\ pc = "sss_got"
    /\ UNCHANGED <<authVars, guard, closing, exit_status>>
    /\ issued' = NoCommand
    /\ IF uids_bytes = <<>>
       THEN /\ name_idx' = name_idx + 1
            /\ Goto("sss_loop")
            /\ UNCHANGED <<email_results, uid_idx>>
       ELSE /\ email_results' = <<>>
            /\ uid_idx' = 1
            /\ name_idx' = name_idx
            /\ Goto("proc_loop")
    /\ attempts' = <<>>
    /\ UNCHANGED <<mode, connection, move_to_deleted, sender_names, charset,
                   uids_bytes, results, total_found_uids, deleteVars,
                   searched, found, deleteObs, failed>>

\* Faulty variant of AlreadySeen: no UID is ever taken as seen.
NeverSeen(uid_str, seen) == FALSE

\* _process_email_ids, lines 155-156.
AlreadySeen(uid_str, seen) == uid_str \in seen

\* _fetch_email_subject, line 100: the data item of the UID FETCH.
SubjectOnly == "(BODY.PEEK[HEADER.FIELDS (SUBJECT)])"

\* Faulty variant of ProcessEmailId: a UID whose fetch failed gets no record.
ProcessEmailIdDrops ==
    /\ pc = "proc_loop"
    /\ UNCHANGED <<authVars, guard, closing, exit_status>>
    /\ uid_idx <= Len(uids_bytes)
    /\ LET uid_str == Decode(uids_bytes[uid_idx])
       IN  IF AlreadySeen(uid_str, total_found_uids)
           THEN /\ issued' = NoCommand
                /\ UNCHANGED <<total_found_uids, email_results, failed>>
           ELSE /\ total_found_uids' = total_found_uids \cup {uid_str}
                /\ \E answer \in Answers :
                     LET fetched == connection = "SELECTED" /\ answer = "OK"
                     IN  /\ failed' = (failed \/ ~fetched)
                         /\ issued' = IF connection = "SELECTED"
                                    THEN Command("FETCH", uid_str, SubjectOnly, answer)
                                    ELSE NoCommand
                         /\ email_results' =
                              IF fetched
                              THEN Append(email_results,
                                          [id |-> uid_str,
                                           sender |-> sender_names[name_idx],
                                           subject |-> "subject"])
                              ELSE email_results
    /\ uid_idx' = uid_idx + 1
    /\ Goto("proc_loop")
    /\ UNCHANGED <<mode, connection, move_to_deleted, sender_names, name_idx, charset,
                   uids_bytes, results, deleteVars, searchObs, deleteObs>>

\* _process_email_ids, lines 150-168, one iteration, with _fetch_email_subject
\* (lines 96-113): the UID FETCH, whose every failure gives the placeholder.
\* The handler of lines 169-179 catches OSError and IMAP4.error; nothing in
\* the try block raises either (_fetch_email_subject catches both, line 111),
\* so it never runs.
ProcessEmailId ==
    /\ pc = "proc_loop"
    /\ UNCHANGED <<authVars, guard, closing, exit_status>>
    /\ uid_idx <= Len(uids_bytes)
    /\ LET uid_str == Decode(uids_bytes[uid_idx])
       IN  IF AlreadySeen(uid_str, total_found_uids)
           THEN /\ issued' = NoCommand
                /\ UNCHANGED <<total_found_uids, email_results, failed>>
           ELSE /\ total_found_uids' = total_found_uids \cup {uid_str}
                /\ \E answer \in Answers :
                     LET fetched == connection = "SELECTED" /\ answer = "OK"
                         subject == IF fetched THEN "subject"
                                    ELSE "(Error fetching subject)"
                     IN  /\ failed' = (failed \/ ~fetched)
                         /\ issued' = IF connection = "SELECTED"
                                    THEN Command("FETCH", uid_str, SubjectOnly, answer)
                                    ELSE NoCommand
                         /\ email_results' =
                              Append(email_results,
                                     [id |-> uid_str,
                                      sender |-> sender_names[name_idx],
                                      subject |-> subject])
    /\ uid_idx' = uid_idx + 1
    /\ Goto("proc_loop")
    /\ UNCHANGED <<mode, connection, move_to_deleted, sender_names, name_idx, charset,
                   uids_bytes, results, deleteVars, searchObs, deleteObs>>

\* Faulty variant of ProcessReturn: results = email_results for results.extend(...).
ProcessReturnOverwrites ==
    /\ pc = "proc_loop"
    /\ UNCHANGED <<authVars, guard, closing, exit_status>>
    /\ issued' = NoCommand
    /\ uid_idx > Len(uids_bytes)
    /\ results' = email_results
    /\ name_idx' = name_idx + 1
    /\ uid_idx' = 0
    /\ email_results' = <<>>
    /\ Goto("sss_loop")
    /\ UNCHANGED <<mode, connection, move_to_deleted, sender_names, charset,
                   uids_bytes, total_found_uids, deleteVars, searchObs, deleteObs,
                   failed>>

\* _process_email_ids, line 181, and search_specific_senders, line 218:
\* results.extend(email_results).
ProcessReturn ==
    /\ pc = "proc_loop"
    /\ UNCHANGED <<authVars, guard, closing, exit_status>>
    /\ issued' = NoCommand
    /\ uid_idx > Len(uids_bytes)
    /\ results' = results \o email_results
    /\ name_idx' = name_idx + 1
    /\ uid_idx' = 0
    /\ email_results' = <<>>
    /\ Goto("sss_loop")
    /\ UNCHANGED <<mode, connection, move_to_deleted, sender_names, charset,
                   uids_bytes, total_found_uids, deleteVars, searchObs, deleteObs,
                   failed>>

(***************************************************************************)
(* Batch mutation engine: delete_emails, _process_deletion_batch,          *)
(* _delete_single_uid, _retry_delete_single_uid, _expunge_with_retry.      *)
(***************************************************************************)

\* <<s[n], ..., s[1]>>
Reverse(s) == [x \in DOMAIN s |-> s[Len(s) + 1 - x]]

\* Faulty variant of Batch: the slice is handed over last UID first.
BatchReversed(ids, start, size) ==
    Reverse(SubSeq(ids, start + 1, Min(start + size, Len(ids))))

\* Faulty variant of Batch: the slice ends one element early.
BatchShort(ids, start, size) == SubSeq(ids, start + 1, Min(start + size - 1, Len(ids)))

\* delete_emails, line 353: email_ids[k:k+batch_size] (k counts from 0).
Batch(ids, start, size) == SubSeq(ids, start + 1, Min(start + size, Len(ids)))

\* Faulty variant of NothingToDelete: the empty list is not special.
NeverNothing(ids) == FALSE

\* delete_emails, lines 339-341: `if not email_ids: return`.
NothingToDelete(ids) == ids = <<>>

\* delete_emails, lines 339-347: nothing to do for an empty list, else the
\* liveness probe before the deletion pass.
DeleteEmails ==
    /\ pc = "del_enter"
    /\ UNCHANGED <<authVars, closing, exit_status>>
    /\ issued' = NoCommand
    /\ guard' = IF NothingToDelete(email_ids) THEN guard ELSE [op |-> "delete", alive |-> TRUE, reconnects |-> 0]
    /\ batches' = <<>>
    /\ uidlog' = <<>>
    /\ cur' = NoUid
    /\ commit' = NoCommit
    /\ probes' = [NoProbes EXCEPT !.entry = connection]
    /\ IF NothingToDelete(email_ids)
       THEN Return /\ k' = k
       ELSE Call("noop", "del_batch", "del_reconnect") /\ k' = 0
    /\ UNCHANGED <<mode, connection, move_to_deleted, searchVars, email_ids,
                   batch_size, offset, searchObs, failed>>

\* delete_emails, line 347: self._reconnect(), outside any try.
DeleteReconnect ==
    /\ pc = "del_reconnect"
    /\ UNCHANGED <<authVars, closing, exit_status>>
    /\ issued' = NoCommand
    /\ guard' = [guard EXCEPT !.reconnects = @ + 1]
    /\ Call("rc_close", "del_batch", "del_unwind")
    /\ UNCHANGED <<mode, connection, move_to_deleted, searchVars, deleteVars,
                   searchObs, deleteObs, failed>>

\* What _reconnect() raised at line 347 leaves delete_emails.
DeletePropagate ==
    /\ pc = "del_unwind"
    /\ UNCHANGED <<authVars, closing, exit_status>>
    /\ issued' = NoCommand
    /\ guard' = NoGuard
    /\ Raise
    /\ UNCHANGED <<mode, connection, move_to_deleted, searchVars, deleteVars,
                   searchObs, deleteObs, failed>>

\* delete_emails, lines 352-357: the next batch, or the commit step when the
\* range is exhausted.
DeleteBatch ==
    /\ pc = "del_batch"
    /\ UNCHANGED <<authVars, closing, exit_status>>
    /\ issued' = NoCommand
    /\ guard' = NoGuard
    /\ IF k >= Len(email_ids)
       THEN /\ commit' = [NoCommit EXCEPT !.entered = TRUE]
            /\ Goto("exp_probe")
            /\ UNCHANGED <<batches, offset>>
       ELSE /\ batches' = Append(batches, Batch(email_ids, k, batch_size))
            /\ offset' = 0
            /\ Goto("pdb_loop")
            /\ UNCHANGED commit
    /\ UNCHANGED <<mode, connection, move_to_deleted, searchVars, email_ids,
                   batch_size, k, uidlog, cur, probes, searchObs, failed>>

\* _process_deletion_batch, lines 302-304, and _delete_single_uid, line 291:
\* the next UID of the batch and its liveness probe; line 312 and the step of
\* the range when the batch is exhausted.
ProcessDeletionBatch ==
    /\ pc = "pdb_loop"
    /\ UNCHANGED <<authVars, closing, exit_status>>
    /\ issued' = NoCommand
    /\ guard' = IF offset >= Len(Batch(email_ids, k, batch_size))
                THEN guard ELSE [op |-> "store", alive |-> TRUE, reconnects |-> 0]
    /\ IF offset >= Len(Batch(email_ids, k, batch_size))
       THEN /\ k' = k + batch_size
            /\ Goto("del_batch")
            /\ cur' = cur
       ELSE /\ k' = k
            /\ cur' = NoUid
            /\ Call("noop", "dsu_store", "dsu_reconnect")
    /\ UNCHANGED <<mode, connection, move_to_deleted, searchVars, email_ids,
                   batch_size, offset, batches, uidlog, commit, probes, searchObs,
                   failed>>

\* Faulty variant of DeleteSingleReconnect: the dead connection is used as it is.
DeleteSingleNoReconnect ==
    /\ pc = "dsu_reconnect"
    /\ Goto("dsu_store")
    /\ UNCHANGED <<mode, connection, move_to_deleted, searchVars, deleteVars,
                   searchObs, deleteObs, failed, guard, closing, exit_status, authVars>>
    /\ issued' = NoCommand

\* _delete_single_uid, line 292: self._reconnect().
DeleteSingleReconnect ==
    /\ pc = "dsu_reconnect"
    /\ UNCHANGED <<authVars, closing, exit_status>>
    /\ issued' = NoCommand
    /\ guard' = [guard EXCEPT !.reconnects = @ + 1]
    /\ Call("rc_close", "dsu_store", "pdb_except")
    /\ UNCHANGED <<mode, connection, move_to_deleted, searchVars, deleteVars,
                   searchObs, deleteObs, failed>>

\* The UID in progress is finished: `continue`, or the end of the loop body.
NextUid ==
    /\ uidlog' = Append(uidlog, cur'.sent)
    /\ offset' = offset + 1
    /\ Goto("pdb_loop")

\* _process_deletion_batch, line 302: the `uid` of `enumerate(batch_uids)`.
BatchUid == Batch(email_ids, k, batch_size)[offset + 1]

\* _delete_single_uid, line 293, and _retry_delete_single_uid, line 298.
FlagDeleted == "+FLAGS \\Deleted"

\* _delete_single_uid, line 293: UID STORE +FLAGS \Deleted; the status of the
\* answer is not looked at.
DeleteSingleStore ==
    /\ pc = "dsu_store"
    /\ UNCHANGED <<authVars, closing, exit_status>>
    /\ guard' = NoGuard
    /\ IF connection # "SELECTED"
       THEN /\ cur' = [cur EXCEPT !.first = @ + 1]
            /\ failed' = TRUE
            /\ issued' = NoCommand
            /\ Goto("pdb_except")
            /\ UNCHANGED <<uidlog, offset>>
       ELSE \E answer \in Answers :
              /\ failed' = Fail(answer)
              /\ issued' = Command("STORE", BatchUid, FlagDeleted, answer)
              /\ cur' = [cur EXCEPT !.first = @ + 1, !.sent = @ + 1]
              /\ IF answer \in Statuses
                 THEN NextUid
                 ELSE Goto("pdb_except") /\ UNCHANGED <<uidlog, offset>>
    /\ probes' = [probes EXCEPT !.touched = TRUE]
    /\ UNCHANGED <<mode, connection, move_to_deleted, searchVars, email_ids,
                   batch_size, k, batches, commit, searchObs>>

\* _process_deletion_batch, lines 305-308, and _retry_delete_single_uid, line
\* 297: the handler of the first try, which reconnects unconditionally.
RetryDeleteSingleUid ==
    /\ pc = "pdb_except"
    /\ UNCHANGED <<authVars, closing, exit_status>>
    /\ issued' = NoCommand
    /\ guard' = NoGuard
    /\ cur' = [cur EXCEPT !.firstFailed = TRUE, !.forced = @ + 1]
    /\ Call("rc_close", "retry_store", "pdb_retry_failed")
    /\ UNCHANGED <<mode, connection, move_to_deleted, searchVars, deleteVars,
                   batches, uidlog, commit, probes, searchObs, failed>>

\* _retry_delete_single_uid, line 298: the second UID STORE; whatever it
\* answers, the loop goes on (lines 309-311).
RetryStore ==
    /\ pc = "retry_store"
    /\ UNCHANGED <<authVars, guard, closing, exit_status>>
    /\ IF connection # "SELECTED"
       THEN /\ cur' = [cur EXCEPT !.second = @ + 1]
            /\ failed' = TRUE
            /\ issued' = NoCommand
       ELSE /\ \E answer \in Answers :
                /\ failed' = Fail(answer)
                /\ issued' = Command("STORE", BatchUid, FlagDeleted, answer)
            /\ cur' = [cur EXCEPT !.second = @ + 1, !.sent = @ + 1]
    /\ NextUid
    /\ probes' = [probes EXCEPT !.touched = TRUE]
    /\ UNCHANGED <<mode, connection, move_to_deleted, searchVars, email_ids,
                   batch_size, k, batches, commit, searchObs>>

\* Faulty variant of RetryFailed: the rest of the batch is given up (break for continue).
RetryFailedBreaks ==
    /\ pc = "pdb_retry_failed"
    /\ UNCHANGED <<authVars, guard, closing, exit_status>>
    /\ issued' = NoCommand
    /\ cur' = cur
    /\ uidlog' = Append(uidlog, cur.sent)
    /\ offset' = Len(email_ids)
    /\ Goto("pdb_loop")
    /\ UNCHANGED <<mode, connection, move_to_deleted, searchVars, email_ids,
                   batch_size, k, batches, commit, probes, searchObs, failed>>

\* _process_deletion_batch, lines 309-311: the forced reconnect raised.
RetryFailed ==
    /\ pc = "pdb_retry_failed"
    /\ UNCHANGED <<authVars, guard, closing, exit_status>>
    /\ issued' = NoCommand
    /\ cur' = cur
    /\ NextUid
    /\ UNCHANGED <<mode, connection, move_to_deleted, searchVars, email_ids,
                   batch_size, k, batches, commit, probes, searchObs, failed>>

\* _expunge_with_retry, line 317: the liveness probe of the commit step.
ExpungeProbe ==
    /\ pc = "exp_probe"
    /\ UNCHANGED <<authVars, closing, exit_status>>
    /\ issued' = NoCommand
    /\ guard' = [op |-> "expunge", alive |-> TRUE, reconnects |-> 0]
    /\ Call("noop", "exp_send", "exp_reconnect")
    /\ UNCHANGED <<mode, connection, move_to_deleted, searchVars, deleteVars,
                   searchObs, deleteObs, failed>>

\* Faulty variant of ExpungeReconnect: the dead connection is used as it is.
ExpungeNoReconnect ==
    /\ pc = "exp_reconnect"
    /\ UNCHANGED <<authVars, guard, closing, exit_status>>
    /\ issued' = NoCommand
    /\ Goto("exp_send")
    /\ UNCHANGED <<mode, connection, move_to_deleted, searchVars, deleteVars,
                   searchObs, deleteObs, failed>>

\* _expunge_with_retry, line 318: self._reconnect().
ExpungeReconnect ==
    /\ pc = "exp_reconnect"
    /\ UNCHANGED <<authVars, closing, exit_status>>
    /\ issued' = NoCommand
    /\ guard' = [guard EXCEPT !.reconnects = @ + 1]
    /\ commit' = [commit EXCEPT !.reconnects = @ + 1]
    /\ Call("rc_close", "exp_send", "exp_except")
    /\ UNCHANGED <<mode, connection, move_to_deleted, searchVars, deleteVars,
                   batches, uidlog, cur, probes, searchObs, failed>>

\* _expunge_with_retry, lines 319-320: EXPUNGE; the status is not looked at.
ExpungeSend ==
    /\ pc = "exp_send"
    /\ UNCHANGED <<authVars, closing, exit_status>>
    /\ guard' = NoGuard
    /\ IF connection # "SELECTED"
       THEN /\ commit' = [commit EXCEPT !.first = @ + 1]
            /\ failed' = TRUE
            /\ issued' = NoCommand
            /\ Goto("exp_except")
       ELSE \E answer \in Answers :
              /\ failed' = Fail(answer)
              /\ issued' = Command("EXPUNGE", 0, "", answer)
              /\ IF answer \in Statuses
                 THEN /\ commit' = [commit EXCEPT !.first = @ + 1,
                                                  !.expunges = @ + 1, !.done = TRUE]
                      /\ Return
                 ELSE /\ commit' = [commit EXCEPT !.first = @ + 1, !.expunges = @ + 1]
                      /\ Goto("exp_except")
    /\ probes' = [probes EXCEPT !.touched = TRUE]
    /\ UNCHANGED <<mode, connection, move_to_deleted, searchVars, deleteVars,
                   batches, uidlog, cur, searchObs>>

\* _expunge_with_retry, lines 321-325: the handler of the first try, which
\* reconnects unconditionally.
ExpungeExcept ==
    /\ pc = "exp_except"
    /\ UNCHANGED <<authVars, closing, exit_status>>
    /\ issued' = NoCommand
    /\ guard' = NoGuard
    /\ commit' = [commit EXCEPT !.firstFailed = TRUE, !.reconnects = @ + 1,
                                !.forced = @ + 1]
    /\ Call("rc_close", "exp_retry", "exp_failed")
    /\ UNCHANGED <<mode, connection, move_to_deleted, searchVars, deleteVars,
                   batches, uidlog, cur, probes, searchObs, failed>>

\* _expunge_with_retry, lines 326-329: the second EXPUNGE; whatever it
\* answers, the function returns.
ExpungeRetry ==
    /\ pc = "exp_retry"
    /\ UNCHANGED <<authVars, guard, closing, exit_status>>
    /\ IF connection # "SELECTED"
       THEN /\ commit' = [commit EXCEPT !.second = @ + 1, !.done = TRUE]
            /\ failed' = TRUE
            /\ issued' = NoCommand
       ELSE /\ \E answer \in Answers :
                /\ failed' = Fail(answer)
                /\ issued' = Command("EXPUNGE", 0, "", answer)
            /\ commit' = [commit EXCEPT !.second = @ + 1, !.expunges = @ + 1,
                                        !.done = TRUE]
    /\ Return
    /\ probes' = [probes EXCEPT !.touched = TRUE]
    /\ UNCHANGED <<mode, connection, move_to_deleted, searchVars, deleteVars,
                   batches, uidlog, cur, searchObs>>

\* Faulty variant of ExpungeFailed: what the forced reconnect raised is let through.
ExpungeFailedRaises ==
    /\ pc = "exp_failed"
    /\ UNCHANGED <<authVars, guard, closing, exit_status>>
    /\ issued' = NoCommand
    /\ commit' = [commit EXCEPT !.done = TRUE]
    /\ Raise
    /\ UNCHANGED <<mode, connection, move_to_deleted, searchVars, deleteVars,
                   batches, uidlog, cur, probes, searchObs, failed>>

\* _expunge_with_retry, lines 328-329: the forced reconnect raised.
ExpungeFailed ==
    /\ pc = "exp_failed"
    /\ UNCHANGED <<authVars, guard, closing, exit_status>>
    /\ issued' = NoCommand
    /\ commit' = [commit EXCEPT !.done = TRUE]
    /\ Return
    /\ UNCHANGED <<mode, connection, move_to_deleted, searchVars, deleteVars,
                   batches, uidlog, cur, probes, searchObs, failed>>

(***************************************************************************)
(* The XOAUTH2 handshake: authenticate_oauth2 and its manual fallback       *)
(* (src/auth.py), on a handle imaplib.IMAP4_SSL has just opened.  A text is *)
(* the sequence of its characters; the server's lines are drawn from        *)
(* RawLines.  connect() (ConnectAuthenticate) sees of the handshake only    *)
(* its outcome; the steps below are its inside.                             *)
(***************************************************************************)

\* def _read_final_auth_response(imap_conn, tag_str, max_attempts=10)
MaxAttempts == 10

\* str(tag): imaplib's _new_tag() returns bytes.
TagStr == <<"b", "'", "A", "1", "'">>

Lower == <<"a", "b", "c", "d", "e", "f", "g", "h", "i", "j", "k", "l", "m", "n", "o", "p", "q", "r", "s", "t", "u", "v", "w", "x", "y", "z">>
Capital == <<"A", "B", "C", "D", "E", "F", "G", "H", "I", "J", "K", "L", "M", "N", "O", "P", "Q", "R", "S", "T", "U", "V", "W", "X", "Y", "Z">>

\* str.upper(), character by character.
UpperChar(c) ==
    IF \E x \in DOMAIN Lower : Lower[x] = c
    THEN Capital[CHOOSE x \in DOMAIN Lower : Lower[x] = c]
    ELSE c

UpperText(s) == [x \in DOMAIN s |-> UpperChar(s[x])]

Whitespace == {" ", "\r", "\n"}

RECURSIVE LStrip(_)
LStrip(s) == IF s # <<>> /\ Head(s) \in Whitespace THEN LStrip(Tail(s)) ELSE s

RECURSIVE RStrip(_)
RStrip(s) ==
    IF s # <<>> /\ s[Len(s)] \in Whitespace THEN RStrip(SubSeq(s, 1, Len(s) - 1)) ELSE s

\* str.strip()
Strip(s) == LStrip(RStrip(s))

\* s.startswith(prefix)
StartsWith(s, prefix) ==
    Len(prefix) <= Len(s) /\ SubSeq(s, 1, Len(prefix)) = prefix

\* needle in hay
Contains(needle, hay) ==
    \E x \in 0..(Len(hay) - Len(needle)) : SubSeq(hay, x + 1, x + Len(needle)) = needle

RECURSIVE Join(_)
\* ' '.join(lines)
Join(lines) ==
    IF lines = <<>> THEN <<>>
    ELSE IF Len(lines) = 1 THEN lines[1]
    ELSE lines[1] \o <<" ">> \o Join(Tail(lines))

\* What readline() can give: end of stream, an empty line, a continuation
\* request, an untagged line, and the tagged completion with its status.
RawLines ==
    { <<>>,
      <<"\r", "\n">>,
      <<"+">> \o <<"\r", "\n">>,
      <<"*", " ", "O", "K">> \o <<"\r", "\n">>,
      TagStr \o <<" ", "O", "K">> \o <<"\r", "\n">>,
      TagStr \o <<" ", "N", "O", " ", "i", "n", "v", "a", "l", "i", "d">> \o <<"\r", "\n">>,
      TagStr \o <<" ", "N", "O", " ", "i", "n", "v", "a", "l", "i", "d", " ", "t", "o", "k", "e", "n">> \o <<"\r", "\n">>,
      TagStr \o <<" ", "B", "A", "D">> \o <<"\r", "\n">> }

\* _read_imap_response, lines 16-19: decode and strip what readline() gave.
ReadImapResponse(raw) == Strip(raw)

\* authenticate_oauth2 is entered with the handle connect() has just opened
\* (imap_service.py, lines 22-26).
AuthInit ==
    /\ pc = "auth_enter"
    /\ stack = <<>>
    /\ mode = "none"
    /\ connection = "NONAUTH"
    /\ sender_names = <<>>
    /\ move_to_deleted = FALSE
    /\ name_idx = 0
    /\ charset = "UTF-8"
    /\ uids_bytes = <<>>
    /\ uid_idx = 0
    /\ email_results = <<>>
    /\ results = <<>>
    /\ total_found_uids = {}
    /\ email_ids = <<>>
    /\ batch_size = DefaultBatchSize
    /\ k = 0
    /\ offset = 0
    /\ searched = <<>>
    /\ attempts = <<>>
    /\ found = {}
    /\ failed = FALSE
    /\ batches = <<>>
    /\ uidlog = <<>>
    /\ cur = NoUid
    /\ commit = NoCommit
    /\ probes = NoProbes
    /\ guard = NoGuard
    /\ closing = NoClosing
    /\ issued = NoCommand
    /\ exit_status = "None"
    /\ NoAuth

\* authenticate_oauth2, lines 94-107: imaplib's authenticate().  It returns
\* only with OK (and has then set the handle's state); NO, BAD, a dropped
\* connection and an unusable authenticate() all raise inside the try.
AuthenticateOauth2 ==
    /\ pc = "auth_enter"
    /\ \E answer \in {"OK", "IMAP4.error", "OSError", "TypeError"} :
        IF answer = "OK"
        THEN /\ connection' = "AUTH"
             /\ exc' = exc
             /\ pc' = "auth_returned"
        ELSE /\ connection' = connection
             /\ exc' = answer
             /\ pc' = "auth_except"
    /\ UNCHANGED <<runVars, response, response_lines, auth_attempts, full_response,
                   error_msg, wire, reads>>

\* authenticate_oauth2, lines 108-115: both handlers fall back to
\* _authenticate_oauth2_manual; lines 51-52 take a new tag.
AuthenticateFallback ==
    /\ pc = "auth_except"
    /\ exc' = "None"
    /\ pc' = "man_send_cmd"
    /\ UNCHANGED <<runVars, connection, response, response_lines, auth_attempts,
                   full_response, error_msg, wire, reads>>

\* _authenticate_oauth2_manual, line 56: send '<tag> AUTHENTICATE XOAUTH2'.
ManualSendCommand ==
    /\ pc = "man_send_cmd"
    /\ \E answer \in {"OK", "OSError"} :
        IF answer = "OK"
        THEN /\ wire' = Append(wire, "AUTHENTICATE XOAUTH2")
             /\ exc' = exc
             /\ pc' = "man_read_first"
        ELSE /\ wire' = wire
             /\ exc' = answer
             /\ pc' = "man_except"
    /\ UNCHANGED <<runVars, connection, response, response_lines, auth_attempts,
                   full_response, error_msg, reads>>

\* Faulty variant of ManualReadFirst: the continuation marker is not asked for.
ManualReadFirstUnchecked ==
    /\ pc = "man_read_first"
    /\ \E raw \in RawLines :
        /\ response' = ReadImapResponse(raw)
        /\ pc' = "man_send_bearer"
    /\ UNCHANGED <<runVars, connection, exc, response_lines, auth_attempts,
                   full_response, error_msg, wire, reads>>

\* _authenticate_oauth2_manual, lines 59-64: the first line must begin with
\* '+'.  The socket has no timeout: a readline() the server never answers
\* does not return.
ManualReadFirst ==
    /\ pc = "man_read_first"
    /\ \/ \E raw \in RawLines :
            /\ response' = ReadImapResponse(raw)
            /\ IF StartsWith(response', <<"+">>)
               THEN /\ pc' = "man_send_bearer"
                    /\ UNCHANGED <<exc, error_msg>>
               ELSE /\ exc' = "IMAP4.error"
                    /\ error_msg' = <<"Unexpected server response: ">> \o response'
                                       \o <<". Expected '+' to continue.">>
                    /\ pc' = "man_except"
       \/ /\ exc' = "OSError"
          /\ pc' = "man_except"
          /\ UNCHANGED <<response, error_msg>>
       \/ /\ pc' = "blocked"
          /\ UNCHANGED <<response, exc, error_msg>>
    /\ UNCHANGED <<runVars, connection, response_lines, auth_attempts,
                   full_response, wire, reads>>

\* _authenticate_oauth2_manual, lines 67-71: send the base64 bearer string,
\* then _read_final_auth_response starts with no line and no attempt.
ManualSendBearer ==
    /\ pc = "man_send_bearer"
    /\ \E answer \in {"OK", "OSError"} :
        IF answer = "OK"
        THEN /\ wire' = Append(wire, "auth_bytes")
             /\ exc' = exc
             /\ pc' = "man_read_final"
        ELSE /\ wire' = wire
             /\ exc' = answer
             /\ pc' = "man_except"
    /\ response_lines' = <<>>
    /\ auth_attempts' = 0
    /\ UNCHANGED <<runVars, connection, response, full_response, error_msg, reads>>

\* _read_final_auth_response, line 27: while attempts < max_attempts
LoopContinues(n) == n < MaxAttempts

\* _read_final_auth_response, lines 27-34, one iteration: read a line, stop
\* at an empty one, keep it, stop at the tagged one; line 36 when it stops.
ReadFinalAuthResponse ==
    /\ pc = "man_read_final"
    /\ LoopContinues(auth_attempts)
    /\ \/ \E raw \in RawLines :
            LET line == ReadImapResponse(raw)
            IN  /\ reads' = reads + 1
                /\ exc' = exc
                /\ IF line = <<>>
                   THEN /\ response_lines' = response_lines
                        /\ auth_attempts' = auth_attempts
                        /\ full_response' = Join(response_lines)
                        /\ pc' = "man_validate"
                   ELSE /\ response_lines' = Append(response_lines, line)
                        /\ IF StartsWith(line, TagStr)
                           THEN /\ auth_attempts' = auth_attempts
                                /\ full_response' = Join(response_lines')
                                /\ pc' = "man_validate"
                           ELSE /\ auth_attempts' = auth_attempts + 1
                                /\ full_response' = full_response
                                /\ pc' = "man_read_final"
       \/ /\ reads' = reads + 1
          /\ exc' = "OSError"
          /\ pc' = "man_except"
          /\ UNCHANGED <<response_lines, auth_attempts, full_response>>
       \/ /\ reads' = reads + 1
          /\ pc' = "blocked"
          /\ UNCHANGED <<exc, response_lines, auth_attempts, full_response>>
    /\ UNCHANGED <<runVars, connection, response, error_msg, wire>>

\* _read_final_auth_response, lines 27 and 36: the attempts are used up.
ReadFinalExhausted ==
    /\ pc = "man_read_final"
    /\ ~LoopContinues(auth_attempts)
    /\ full_response' = Join(response_lines)
    /\ pc' = "man_validate"
    /\ UNCHANGED <<runVars, connection, exc, response, response_lines, auth_attempts,
                   error_msg, wire, reads>>

\* _validate_auth_response, line 41.
AuthResponseValid(text, tag) ==
    Contains(tag, text) /\ Contains(<<"O", "K">>, UpperText(text))

\* Faulty variant of ValidateAuthResponse: the handle's state is not updated.
ValidateWithoutState ==
    /\ pc = "man_validate"
    /\ IF AuthResponseValid(full_response, TagStr)
       THEN /\ pc' = "auth_returned"
            /\ UNCHANGED <<exc, error_msg>>
       ELSE /\ exc' = "IMAP4.error"
            /\ error_msg' = <<"XOAUTH2 authentication failed. Server response: ">>
                              \o full_response
            /\ pc' = "man_except"
    /\ UNCHANGED <<runVars, connection, response, response_lines, auth_attempts,
                   full_response, wire, reads>>

\* _validate_auth_response, lines 39-44, and _authenticate_oauth2_manual,
\* lines 73-77: on success imap_conn.state = 'AUTH'.
ValidateAuthResponse ==
    /\ pc = "man_validate"
    /\ IF AuthResponseValid(full_response, TagStr)
       THEN /\ connection' = "AUTH"
            /\ pc' = "auth_returned"
            /\ UNCHANGED <<exc, error_msg>>
       ELSE /\ connection' = connection
            /\ exc' = "IMAP4.error"
            /\ error_msg' = <<"XOAUTH2 authentication failed. Server response: ">>
                              \o full_response
            /\ pc' = "man_except"
    /\ UNCHANGED <<runVars, response, response_lines, auth_attempts, full_response,
                   wire, reads>>

\* Faulty variant of ManualExcept: the exception is raised again as it is.
ManualExceptReraises ==
    /\ pc = "man_except"
    /\ pc' = "auth_raised"
    /\ UNCHANGED <<runVars, connection, exc, response, response_lines, auth_attempts,
                   full_response, error_msg, wire, reads>>

\* _authenticate_oauth2_manual, lines 79-82: an IMAP4.error is raised again,
\* anything else is wrapped into one.
ManualExcept ==
    /\ pc = "man_except"
    /\ IF exc = "IMAP4.error"
       THEN UNCHANGED <<exc, error_msg>>
       ELSE /\ exc' = "IMAP4.error"
            /\ error_msg' = <<"Error during XOAUTH2 authentication: ", exc>>
    /\ pc' = "auth_raised"
    /\ UNCHANGED <<runVars, connection, response, response_lines, auth_attempts,
                   full_response, wire, reads>>

AuthNext ==
    \/ AuthenticateOauth2
    \/ AuthenticateFallback
    \/ ManualSendCommand
    \/ ManualReadFirst
    \/ ManualSendBearer
    \/ ReadFinalAuthResponse
    \/ ReadFinalExhausted
    \/ ValidateAuthResponse
    \/ ManualExcept

AuthSpec == AuthInit /\ [][AuthNext]_vars

Next ==
    \/ CleanInbox
    \/ CleanInboxToken
    \/ DeleteEmailsCaller
    \/ DeleteEmailsUnconnected
    \/ RunConnected
    \/ CleanInboxSummary
    \/ RunFinally
    \/ CloseAgain
    \/ Main
    \/ MainReturn
    \/ ConnectOpen
    \/ ConnectAuthenticate
    \/ ConnectSelect
    \/ IsConnectionAlive
    \/ ReconnectClose
    \/ ReconnectLogout
    \/ CloseClose
    \/ CloseLogout
    \/ SearchSpecificSenders
    \/ SearchReturn
    \/ SearchAttempt
    \/ SearchReconnect
    \/ SearchSend
    \/ SearchExcept
    \/ SearchGot
    \/ ProcessEmailId
    \/ ProcessReturn
    \/ DeleteEmails
    \/ DeleteReconnect
    \/ DeletePropagate
    \/ DeleteBatch
    \/ ProcessDeletionBatch
    \/ DeleteSingleReconnect
    \/ DeleteSingleStore
    \/ RetryDeleteSingleUid
    \/ RetryStore
    \/ RetryFailed
    \/ ExpungeProbe
    \/ ExpungeReconnect
    \/ ExpungeSend
    \/ ExpungeExcept
    \/ ExpungeRetry
    \/ ExpungeFailed

Spec == Init /\ [][Next]_vars

(***************************************************************************)
(* Properties.                                                             *)
(***************************************************************************)

\* The UIDs the successful UID SEARCHes of the run returned.
Returned == found

\* The criteria searched so far, in order.
Names(calls) == [x \in DOMAIN calls |-> calls[x].name]

\* How many records of `emails` carry the UID.
Records(emails, uid) == Cardinality({x \in DOMAIN emails : emails[x].id = uid})

\* C1: in a run of clean_inbox, every UID of the list given to delete_emails
\* was returned by a UID SEARCH of the same run, and the list holds no UID
\* twice, whatever failed and was reconnected during the search phase.
C1_DeletedWereFound ==
    (mode = "clean_inbox" /\ (pc = "del_enter" \/ InDelete))
        => /\ Range(email_ids) \subseteq Returned
           /\ NoDuplicates(email_ids)

\* C1 happens: delete_emails is entered with two UIDs after a search phase in
\* which a command failed.
C1_Witness ==
    /\ mode = "clean_inbox"
    /\ pc = "del_enter"
    /\ Len(email_ids) = 2
    /\ failed

\* C2: when search_specific_senders returns, every UID that the search of at
\* least one criterion returned has exactly one record in the result, also
\* when several criteria returned it.
C2_OneRecordPerUid ==
    pc = "ci_summary" => \A uid \in Returned : Records(results, uid) = 1

\* C2 happens: two criteria returned a common UID.
C2_Witness ==
    /\ pc = "ci_summary"
    /\ Len(searched) = 2
    /\ searched[1].uids \cap searched[2].uids # {}
    /\ Len(results) = 2

\* C3: delete_emails cuts a list of n UIDs into ceil(n / batch_size)
\* contiguous batches of at most batch_size UIDs, all but the last of exactly
\* batch_size, whose concatenation in order is the list.
C3_Partition ==
    /\ \A b \in DOMAIN batches : Len(batches[b]) <= batch_size
    /\ IsPrefix(Flatten(batches), email_ids)
    /\ commit.entered =>
         /\ Len(batches) = (Len(email_ids) + batch_size - 1) \div batch_size
         /\ \A b \in 1..(Len(batches) - 1) : Len(batches[b]) = batch_size
         /\ Flatten(batches) = email_ids

\* C3 happens: three UIDs in batches of two give a full batch and a rest.
C3_Witness ==
    /\ commit.entered
    /\ batch_size = 2
    /\ Len(batches) = 2
    /\ Len(batches[1]) = 2
    /\ Len(batches[2]) = 1

\* C4: when every command of the run answered OK and the connection stayed
\* alive, a run that found n distinct UIDs reports n, and delete_emails sent
\* exactly one UID STORE per UID and exactly one EXPUNGE.
C4_OneStoreEach ==
    (mode = "clean_inbox" /\ pc = "run_finally" /\ ~failed)
        => /\ Len(email_ids) = Cardinality(Returned)
           /\ Range(email_ids) = Returned
           /\ (move_to_deleted /\ Returned # {})
                => /\ uidlog = [x \in DOMAIN email_ids |-> 1]
                   /\ commit.expunges = 1
                   /\ commit.done

\* C4 happens: two UIDs found and deleted without any failure.
C4_Witness ==
    /\ mode = "clean_inbox"
    /\ pc = "run_finally"
    /\ ~failed
    /\ Len(email_ids) = 2
    /\ uidlog = <<1, 1>>
    /\ commit.expunges = 1

C6_AsStated ==
    /\ commit.done => commit.expunges >= 1
    /\ commit.expunges <= 2
    /\ commit.reconnects <= 2
    /\ commit.forced = (IF commit.firstFailed THEN 1 ELSE 0)
    /\ commit.entered => pc \notin {"del_raised", "del_unwind"}

\* C6, amended: the commit step makes one try (liveness probe, reconnect when
\* the probe fails, EXPUNGE); if the try raises it is retried exactly once
\* after a forced reconnect; if the retry fails too no error reaches the
\* caller; each try sends at most one EXPUNGE, and none when its reconnect
\* fails or no mailbox is selected; at most two EXPUNGEs and two reconnects.
C6_ExpungeRetriedOnce ==
    /\ commit.first <= 1 /\ commit.second <= 1
    /\ commit.expunges <= commit.first + commit.second
    /\ commit.reconnects <= 2
    /\ commit.forced = (IF commit.firstFailed THEN 1 ELSE 0)
    /\ commit.second = 1 => commit.firstFailed
    /\ (commit.done /\ ~commit.firstFailed) => commit.expunges = 1
    /\ pc \in {"exp_retry", "exp_failed"} => (commit.firstFailed /\ commit.second = 0)
    /\ commit.entered => pc \notin {"del_raised", "del_unwind"}
    /\ (commit.entered /\ pc = "run_finally") => commit.done

\* C6 happens: the first EXPUNGE raised after a reconnect, the second was sent
\* after the forced reconnect.
C6_Witness ==
    /\ commit.done
    /\ commit.expunges = 2
    /\ commit.reconnects = 2

\* C7 as stated: delete_emails never lets an error through to its caller, and
\* a call with UIDs to delete returns only after the commit step.
C7_NeverPropagates ==
    /\ pc # "del_raised"
    /\ (pc = "run_finally" /\ probes.touched) => commit.done

\* C8: delete_emails with an empty list sends no NOOP, STORE or EXPUNGE, does
\* not reconnect and leaves the session as it found it.
C8_EmptyIsNoOp ==
    (mode = "delete_emails" /\ pc = "run_finally" /\ email_ids = <<>>)
        => /\ ~probes.touched
           /\ connection = probes.entry
           /\ batches = <<>> /\ uidlog = <<>> /\ cur = NoUid /\ commit = NoCommit

\* C8 happens: delete_emails([]) returned on a session with a selected mailbox.
C8_Witness ==
    /\ mode = "delete_emails"
    /\ pc = "run_finally"
    /\ email_ids = <<>>
    /\ connection = "SELECTED"

\* The attempts of the current call are a CHARSET UTF-8 attempt and, only if
\* that one failed, one attempt without charset.
CharsetFallback ==
    /\ Len(attempts) <= 2
    /\ Len(attempts) >= 1 => attempts[1].charset = "UTF-8"
    /\ Len(attempts) = 2 => (attempts[2].charset = "None" /\ ~attempts[1].ok)
    /\ pc = "sss_got" =>
         /\ Len(attempts) >= 1
         /\ attempts[Len(attempts)].ok \/ (Len(attempts) = 2 /\ uids_bytes = <<>>)
    /\ pc # "sss_except"

\* C9 as stated: the first attempt sends UID SEARCH with CHARSET UTF-8, and
\* if it fails exactly one more UID SEARCH, without charset, is sent.
C9_AsStated ==
    /\ CharsetFallback
    /\ pc = "sss_got" => \A x \in DOMAIN attempts : attempts[x].sent

\* C9, amended: a search for one criterion makes a first attempt with CHARSET
\* UTF-8 and, if that attempt fails for any reason, exactly one more attempt
\* without charset; each attempt sends at most one UID SEARCH, and none when
\* it fails before the command (a failed reconnect, no mailbox selected); if
\* both fail the empty sequence is returned without raising; at most two
\* SEARCH commands are sent for one criterion, none after a successful one.
C9_SearchFallback ==
    /\ CharsetFallback
    /\ \A x \in DOMAIN attempts : attempts[x].ok => attempts[x].sent

\* C9 happens: the first attempt failed before its SEARCH was sent, the
\* second one, without charset, sent it and succeeded.
C9_Witness ==
    /\ pc = "sss_got"
    /\ Len(attempts) = 2
    /\ ~attempts[1].sent
    /\ attempts[2].sent /\ attempts[2].ok

\* C10: search_specific_senders searches every criterion of its input, in
\* order, and returns normally; a criterion that fails does not keep the later
\* ones from being searched, and no record once aggregated is removed.
C10_EveryCriterionSearched ==
    [][/\ IsPrefix(Names(searched'), sender_names')
       /\ pc' = "ci_summary" => Names(searched') = sender_names'
       /\ (mode = "clean_inbox" /\ pc # "ci_summary") => IsPrefix(results, results')
       /\ pc' # "sss_except"]_vars

\* C10 happens: the first criterion gave records, the search of the second
\* failed, and the function returns the records of the first.
C10_Witness ==
    /\ pc = "ci_summary"
    /\ Len(searched) = 2
    /\ searched[1].ok /\ ~searched[2].ok
    /\ results # <<>>

\* The state in which the command of a liveness-guarded operation is about to
\* be issued: the UID SEARCH of an attempt, the UID STORE of the first try, the
\* EXPUNGE of the first try, the first batch of the deletion pass.
GuardedCommand ==
    \/ pc = "srch_send" /\ guard.op = "search"
    \/ pc = "dsu_store" /\ guard.op = "store"
    \/ pc = "exp_send" /\ guard.op = "expunge"
    \/ pc = "del_batch" /\ guard.op = "delete"

\* C11: in every liveness-guarded operation (a search attempt, a single-UID
\* store, the expunge, the check before the deletion pass) the operation's
\* command is reached after exactly one _reconnect() when the probe answered
\* false (and after none when it answered true); and when the command sent
\* after that reconnect succeeds the operation succeeds: the search returns the
\* UIDs to its caller, the UID is done with one STORE and no retry, the commit
\* step is done with one EXPUNGE and no retry.
C11_OneReconnectThenCommand ==
    /\ [](/\ pc \in {"srch_send", "dsu_store", "exp_send"} => GuardedCommand
          /\ GuardedCommand => guard.reconnects = (IF guard.alive THEN 0 ELSE 1))
    /\ [][/\ (pc = "srch_send" /\ ~guard.alive /\ attempts'[Len(attempts')].ok)
               => /\ pc' = "sss_got"
                  /\ searched'[Len(searched')].ok
                  /\ Len(attempts') <= 2
          /\ (pc = "dsu_store" /\ ~guard.alive /\ cur'.sent = 1 /\ pc' # "pdb_except")
               => /\ pc' = "pdb_loop"
                  /\ uidlog' = Append(uidlog, 1)
                  /\ offset' = offset + 1
                  /\ ~cur'.firstFailed
          /\ (pc = "exp_send" /\ ~guard.alive /\ commit'.expunges = 1
                 /\ pc' # "exp_except")
               => /\ commit'.done
                  /\ commit'.reconnects = 1
                  /\ commit'.forced = 0]_vars

\* C11 happens: the probe of the commit step answered false, one _reconnect()
\* returned with the mailbox selected, and EXPUNGE is about to be sent.
C11_Witness ==
    /\ pc = "exp_send"
    /\ guard = [op |-> "expunge", alive |-> FALSE, reconnects |-> 1]
    /\ connection = "SELECTED"
    /\ commit.reconnects = 1
    /\ commit.expunges = 0

\* connect() (also as the last step of _reconnect()) returns normally to its
\* caller in this step.
ConnectReturns == pc = "connect_select" /\ pc' = Head(stack).ok /\ stack' = Tail(stack)

\* C17: connect() opens the TLS connection, then authenticates, then selects
\* the mailbox; whenever connect() or _reconnect() returns normally the handle
\* is a freshly opened, authenticated one with the mailbox selected; when
\* authentication fails no SELECT is issued and connect() raises.
C17_ConnectSelectsMailbox ==
    /\ [][ConnectReturns => connection' = "SELECTED"]_vars
    /\ [][pc' = "connect_auth" => (pc = "connect_ssl" /\ connection' = "NONAUTH")]_vars
    /\ [][pc' = "connect_select" => (pc = "connect_auth" /\ connection' = "AUTH")]_vars
    /\ [][(pc = "connect_auth" /\ pc' # "connect_select")
            => (pc' = Head(stack).err /\ stack' = Tail(stack))]_vars

\* C18: the liveness probe issues a NOOP and never propagates an error; it
\* answers true or false to its caller, false whenever the session holds no
\* connection handle, and changes nothing of the session.
C18_ProbeIsTotal ==
    [][pc = "noop"
         => /\ stack' = Tail(stack)
            /\ pc' = (IF guard'.alive THEN Head(stack).ok ELSE Head(stack).err)
            /\ pc' \in {"srch_send", "srch_reconnect", "dsu_store", "dsu_reconnect",
                        "exp_send", "exp_reconnect", "del_batch", "del_reconnect"}
            /\ connection = "None" => ~guard'.alive
            /\ connection' = connection
            /\ UNCHANGED <<mode, move_to_deleted, searchVars, deleteVars>>]_vars

\* C18 happens: probed without a connection handle, the session answered
\* "not alive" and delete_emails goes on to reconnect.
C18_Witness ==
    /\ pc = "del_reconnect"
    /\ connection = "None"
    /\ guard = [op |-> "delete", alive |-> FALSE, reconnects |-> 0]

\* C19: close() never raises and is idempotent: CLOSE is followed by the
\* LOGOUT attempt whatever it answered, close() returns normally whatever
\* LOGOUT answered, also when called again and on a session that never
\* connected, and leaves the session as the first call left it; the teardown
\* of _reconnect() goes on to connect() whatever CLOSE and LOGOUT answered.
C19_CloseNeverRaises ==
    /\ [](pc # "close_raised")
    /\ []((closing.calls >= 1 /\ pc \in {"done", "done_error"})
            => connection \in {"None", "LOGOUT"})
    /\ [][pc = "close_close"
            => IF connection = "None"
               THEN pc' = Head(stack).ok /\ stack' = Tail(stack) /\ connection' = "None"
               ELSE pc' = "close_logout" /\ stack' = stack]_vars
    /\ [][pc = "close_logout"
            => pc' = Head(stack).ok /\ stack' = Tail(stack) /\ connection' = "LOGOUT"]_vars
    /\ [][pc = "rc_close"
            => pc' = (IF connection = "None" THEN "connect_ssl" ELSE "rc_logout")
               /\ stack' = stack]_vars
    /\ [][pc = "rc_logout" => pc' = "connect_ssl" /\ stack' = stack]_vars

\* C19 happens: close() was called twice, a command of it failed, and both
\* calls returned.
C19_Witness ==
    /\ pc \in {"done", "done_error"}
    /\ closing = [calls |-> 2, failed |-> TRUE]
    /\ connection = "LOGOUT"

\* C20: main() returns zero only on success: a missing or invalid
\* configuration, and a run of clean_inbox that ended with an error (token
\* acquisition, connection or authentication failure), give a non-zero status.
C20_ZeroOnlyOnSuccess ==
    /\ [][exit_status' # exit_status
            => /\ exit_status = "None"
               /\ exit_status' = "0" => pc = "done"
               /\ exit_status' = "1" => pc \in {"idle", "done_error"}]_vars
    /\ [](pc = "exited" => exit_status \in {"0", "1"})

(***************************************************************************)
(* Properties of the handshake (AuthSpec).                                 *)
(***************************************************************************)

\* The manual exchange has begun.
Manual == wire # <<>> \/ pc \in {"man_send_cmd", "man_except"}

AuthCommand == "AUTHENTICATE XOAUTH2"

\* The last line _read_final_auth_response kept is the tagged completion
\* with this status.
Completion(status) ==
    /\ response_lines # <<>>
    /\ StartsWith(response_lines[Len(response_lines)], TagStr \o <<" ">> \o status)

\* C12: in the manual fallback, when the server answers AUTHENTICATE XOAUTH2
\* with a line beginning with '+' and the credential line with a line
\* beginning with the tag and carrying OK, authentication succeeds and the
\* handle's state is set to 'AUTH'; the state is 'AUTH' only after a
\* successful return, so every failing path leaves it as it was.
C12_ManualSuccessSetsState ==
    /\ (StartsWith(response, <<"+">>) /\ Completion(<<"O", "K">>))
         => pc \in {"man_validate", "auth_returned"}
    /\ (pc = "auth_returned" /\ Manual) => connection = "AUTH"
    /\ connection \in {"NONAUTH", "AUTH"}
    /\ connection = "AUTH" => pc = "auth_returned"

\* C12 happens: '+', then '<tag> OK' after the credentials; authenticated.
C12_Witness ==
    /\ pc = "auth_returned"
    /\ wire = <<AuthCommand, "auth_bytes">>
    /\ response = <<"+">>
    /\ response_lines = <<TagStr \o <<" ", "O", "K">>>>
    /\ connection = "AUTH"

\* C13: in the manual fallback, whenever the tagged completion line carries
\* NO or BAD, whatever untagged lines preceded it and whatever text follows
\* the status, authentication fails with an IMAP4.error whose message
\* contains the full accumulated response.
C13_FailsOnNoOrBad ==
    ((Completion(<<"N", "O">>) \/ Completion(<<"B", "A", "D">>)) /\ pc # "man_validate")
       => /\ pc \in {"man_except", "auth_raised"}
          /\ exc = "IMAP4.error"
          /\ Contains(full_response, error_msg)

\* C14: in the manual fallback the bearer string is sent only after a first
\* line that begins with '+'; a first line that does not begin with '+' ends
\* the exchange with an IMAP4.error, nothing more being sent.
C14_NoBearerWithoutContinuation ==
    /\ []("auth_bytes" \in Range(wire) => StartsWith(response, <<"+">>))
    /\ [][(/\ pc = "man_read_first"
           /\ pc' # "blocked"
           /\ exc' # "OSError"
           /\ ~StartsWith(response', <<"+">>))
          => /\ pc' = "man_except"
             /\ exc' = "IMAP4.error"
             /\ wire' = <<AuthCommand>>]_vars
    /\ []((pc = "auth_raised" /\ wire = <<AuthCommand>>) => exc = "IMAP4.error")

\* C14 happens: the server answered AUTHENTICATE with '<tag> NO invalid'.
C14_Witness ==
    /\ pc = "auth_raised"
    /\ exc = "IMAP4.error"
    /\ response = TagStr \o <<" ", "N", "O", " ", "i", "n", "v", "a", "l", "i", "d">>
    /\ wire = <<AuthCommand>>

\* The handshake is over: authenticate_oauth2 returned or raised.
AuthDone == pc \in {"auth_returned", "auth_raised"}

\* C15: the completion-reading loop reads at most MaxAttempts lines, and the
\* manual exchange always terminates with success or an authentication error:
\* it is never left waiting for a server that does not send the completion.
C15_AlwaysTerminates ==
    /\ reads <= MaxAttempts
    /\ AuthDone \/ ENABLED AuthNext

\* C16: every failure of authenticate_oauth2, transport errors of the
\* handshake included, reaches the caller as IMAP4.error.
C16_OneErrorKind ==
    /\ pc = "auth_raised" => exc = "IMAP4.error"
    /\ exc # "None" => pc \in {"auth_except", "man_except", "auth_raised"}

\* C16 happens: a send or a readline() of the manual exchange raised OSError,
\* and the caller got an IMAP4.error.
C16_Witness ==
    /\ pc = "auth_raised"
    /\ exc = "IMAP4.error"
    /\ error_msg = <<"Error during XOAUTH2 authentication: ", "OSError">>

(***************************************************************************)
(* Properties of the commands on the wire (Spec).                          *)
(***************************************************************************)

\* Where the UID stands in the list.
Pos(uid, ids) == CHOOSE x \in DOMAIN ids : ids[x] = uid

\* The commit step of delete_emails is running.
InCommit == pc \in {"exp_probe", "exp_reconnect", "exp_send", "exp_except",
                    "exp_retry", "exp_failed"}
                \/ \E x \in DOMAIN stack : stack[x].ok \in {"exp_send", "exp_retry"}

\* C21: commands follow the input order: the subject fetches of a criterion
\* come in the order its search returned the UIDs; a STORE names the first UID
\* of the list whose turn is not finished, so that a UID's retry comes before
\* any STORE of a later UID; and EXPUNGE comes only when every UID of the list
\* has had its turn.
C21_InputOrder ==
    /\ issued.cmd = "FETCH"
         => /\ issued.uid = Decode(uids_bytes[uid_idx - 1])
            /\ issued.uid = email_results[Len(email_results)].id
    /\ pc = "proc_loop"
         => \A x, y \in DOMAIN email_results :
              x < y => Pos(Bytes(email_results[x].id), uids_bytes)
                         < Pos(Bytes(email_results[y].id), uids_bytes)
    /\ issued.cmd = "STORE"
         => issued.uid = email_ids[IF pc = "pdb_except" THEN Len(uidlog) + 1
                                   ELSE Len(uidlog)]
    /\ Len(uidlog) <= Len(email_ids)
    /\ (issued.cmd = "EXPUNGE" \/ InCommit)
         => /\ Len(uidlog) = Len(email_ids)
            /\ commit.entered

\* C21 happens: the second of three UIDs was retried, the third was flagged
\* after it, and EXPUNGE is sent.
C21_Witness ==
    /\ issued.cmd = "EXPUNGE"
    /\ Len(batches) = 2
    /\ uidlog = <<1, 2, 1>>

\* C22: when the fetch of a subject raises a transport error the engine probes
\* liveness before it goes on: a dead connection makes the error reach the
\* caller and ends the processing of the criterion's UIDs, a live one lets the
\* loop go on.  So the loop never goes straight from the failed fetch to the
\* next UID.
C22_FetchErrorEscalates ==
    [][(issued'.cmd = "FETCH" /\ issued'.answer = "OSError") => pc' # "proc_loop"]_vars

\* The record _process_email_ids makes for the UID, the fetch having given
\* its subject or not.
RecordOf(uid, name, fetched) ==
    [id |-> uid, sender |-> name,
     subject |-> IF fetched THEN "subject" ELSE "(Error fetching subject)"]

\* C23: every UID met for the first time gets its record, with the placeholder
\* subject when the UID FETCH answered with a non-OK status, a protocol error
\* or a transport error; the fetch asks for BODY.PEEK[HEADER.FIELDS (SUBJECT)]
\* and nothing else.
C23_PlaceholderOnFetchError ==
    /\ []((issued.cmd = "FETCH") => issued.arg = "(BODY.PEEK[HEADER.FIELDS (SUBJECT)])")
    /\ [][(/\ pc = "proc_loop"
           /\ uid_idx <= Len(uids_bytes)
           /\ Decode(uids_bytes[uid_idx]) \notin total_found_uids)
            => /\ issued'.cmd = "FETCH"
               /\ issued'.uid = Decode(uids_bytes[uid_idx])
               /\ email_results' =
                    Append(email_results,
                           RecordOf(issued'.uid, sender_names[name_idx],
                                    issued'.answer = "OK"))]_vars

\* C23 happens: the fetches of two UIDs failed, the second one with a transport
\* error, and both UIDs have their record.
C23_Witness ==
    /\ issued.cmd = "FETCH"
    /\ issued.answer = "OSError"
    /\ Len(email_results) = 2
    /\ \A x \in DOMAIN email_results :
         email_results[x].subject = "(Error fetching subject)"

\* A command of the four kinds is the next thing the code does.
AboutToSend ==
    \/ pc \in {"srch_send", "dsu_store", "retry_store", "exp_send", "exp_retry"}
    \/ pc = "proc_loop" /\ uid_idx <= Len(uids_bytes)

\* C24: no SEARCH, FETCH, STORE or EXPUNGE is sent, or so much as tried, on a
\* handle that _reconnect() has closed and logged out, also when the connect()
\* of that _reconnect() failed and left the handle in the session.
C24_NoCommandOnTornDownHandle ==
    /\ issued.cmd # "none" => issued.on # "LOGOUT"
    /\ AboutToSend => connection # "LOGOUT"

\* C24 happens: the reconnect of the commit step's first try raised, the
\* forced one succeeded, and EXPUNGE is sent on the new handle.
C24_Witness ==
    /\ issued.cmd = "EXPUNGE"
    /\ issued.on = "SELECTED"
    /\ commit.first = 0
    /\ commit.second = 1
    /\ commit.reconnects = 2

\* C25: every operation that touches the network probes liveness, and
\* reconnects when the probe fails, before its command is sent: each UID
\* SEARCH, each UID FETCH of a subject, the UID STORE of each UID (its first
\* try; the retry follows a reconnect made in any case) and the EXPUNGE (its
\* first try, likewise).
C25_EveryCommandProbed ==
    /\ issued.cmd \in {"SEARCH", "FETCH"} => issued.probed
    /\ (issued.cmd = "STORE" /\ cur.second = 0) => issued.probed
    /\ (issued.cmd = "EXPUNGE" /\ commit.second = 0) => issued.probed

\* The UIDs that have a record in `emails`.
Recorded(emails) == {emails[x].id : x \in DOMAIN emails}

\* C26: whenever search_specific_senders is between two criteria, and so when
\* it returns, the already-seen UIDs are exactly the UIDs with a record in
\* the aggregated result; inside _process_email_ids they are those and the
\* UIDs with a record in the call's own list, which the call always hands
\* over: no call is aborted with UIDs marked and their records lost.
C26_SeenAreRecorded ==
    /\ pc = "sss_loop" => total_found_uids = Recorded(results)
    /\ pc = "proc_loop"
         => /\ total_found_uids = Recorded(results) \cup Recorded(email_results)
            /\ Recorded(results) \cap Recorded(email_results) = {}
    /\ pc # "sss_except"

\* C26 happens: the search of two criteria is over, a fetch failed on the way,
\* and both UIDs seen have their record.
C26_Witness ==
    /\ pc = "sss_loop"
    /\ name_idx > Len(sender_names)
    /\ Len(sender_names) = 2
    /\ total_found_uids = {1, 2}
    /\ Len(results) = 2
    /\ \E x \in DOMAIN results : results[x].subject = "(Error fetching subject)"

\* C27: a SEARCH, FETCH, STORE or EXPUNGE is sent only on a handle that is
\* authenticated and has the mailbox selected, and a liveness probe that
\* answered true means that the handle is in that state, also after a
\* connect() or _reconnect() that failed part-way.
C27_ProbeImpliesSelected ==
    /\ issued.cmd # "none" => issued.on = "SELECTED"
    /\ (GuardedCommand /\ guard.alive) => connection = "SELECTED"

\* C28: when move_to_deleted is false or the search gave no record,
\* clean_inbox goes from the summary straight to the teardown of the session:
\* delete_emails is not called, so no STORE and no EXPUNGE is sent, and from
\* the finally clause on only close() runs.
C28_ReadOnlySendsNothing ==
    /\ []((mode = "clean_inbox" /\ issued.cmd \in {"STORE", "EXPUNGE"})
            => (move_to_deleted /\ email_ids # <<>>))
    /\ [][(pc = "ci_summary" /\ ~(move_to_deleted /\ results # <<>>))
            => /\ pc' = "run_finally"
               /\ stack' = stack
               /\ issued' = NoCommand]_vars
    /\ [][(pc \in {"run_finally", "close_close", "close_logout"})
            => /\ pc' \in {"close_close", "close_logout", "done", "done_error"}
               /\ issued' = NoCommand]_vars

\* C28 happens: two messages matched, move_to_deleted is false, and the run is
\* at its finally clause with the mailbox still selected.
C28_Witness ==
    /\ mode = "clean_inbox"
    /\ pc = "run_finally"
    /\ ~move_to_deleted
    /\ Len(email_ids) = 2
    /\ connection = "SELECTED"
    /\ issued = NoCommand
=============================================================================
